---- MODULE Spec2Model ----
(***************************************************************************)
(* Task dispatch and worker liveness of the render system (src/app.py).    *)
(*                                                                         *)
(* The two tables are the state: render_task (tasks) and worker (workers). *)
(* A row's primary key is its index in the sequence: uuid4 keys are fresh  *)
(* and rows are never deleted, so the index is also the insertion order    *)
(* (SQLite's rowid).  Every handler is one action under Spec.  SpecConc    *)
(* runs worker_request_task statement by statement in two threads, every   *)
(* SQL statement and every commit being one atomic step.                   *)
(***************************************************************************)
EXTENDS Integers, Sequences, FiniteSets, TLC

VARIABLES tasks, workers, now, resp, thr

vars == <<tasks, workers, now, resp, thr>>

(***************************************************************************)
(* Bounds of the model.                                                    *)
(***************************************************************************)
MaxTasks == 2
MaxWorkers == 2
MaxTicks == 1

(***************************************************************************)
(* Program constants and values.                                           *)
(***************************************************************************)
\* line 15
PRIORITY == <<"RUSH", "HIGH", "MEDIUM", "LOW">>

\* NULL of a nullable column, None of Python
None == -1

\* datetime() with no argument raises TypeError (year, month, day are
\* required): the marker of that outcome
Raised == -2

\* timedelta(seconds=30), line 41
HeartbeatTimeout == 30

\* time.sleep(30), line 55
SweepInterval == 30

\* the time between two passes of the monitor: the sleep and the pass itself
Period == SweepInterval + 1

\* datetime.now() in a column default is evaluated once, when the class body
\* runs at import: every row that takes the default gets that one value
ImportTime == 0

\* the '' the monitor passes at line 44; as a request's worker id it stands
\* for any id that has no row
EmptyId == 0

\* ordering: CASE priority WHEN 'RUSH' THEN 0 WHEN 'HIGH' THEN 1 ... (lines 27-30)
ordering(p) == CHOOSE i \in 1..Len(PRIORITY) : PRIORITY[i] = p

\* datetime.now(), as lines 41 and 136 have it
DatetimeNow(clock) == clock

\* datetime(): lines 173, 195, 210, 224
DatetimeNoArgs(clock) == Raised

\* RenderTask(id=task_id): priority too takes its column default (line 21)
NewTaskDefaultPriority(p) ==
    [status |-> "pending", priority |-> "MEDIUM", progress |-> 0,
     created_at |-> ImportTime, updated_at |-> ImportTime, worker_id |-> None]

\* RenderTask(id=task_id, priority=priority): the other columns take their defaults
NewTask(p) ==
    [status |-> "pending", priority |-> p, progress |-> 0,
     created_at |-> ImportTime, updated_at |-> ImportTime, worker_id |-> None]

\* Worker(id=worker_id, last_heartbeat=datetime.now()): status takes its
\* column default (line 35)
NewWorkerDefaultStatus(clock) ==
    [status |-> "Offline", last_heartbeat |-> clock, current_task_id |-> None]

\* Worker(id=worker_id, status='Ready', last_heartbeat=datetime.now())
NewWorker(clock) ==
    [status |-> "Ready", last_heartbeat |-> clock, current_task_id |-> None]

\* resp is the last call: the handler, the id in its URL, what it read of the
\* body, and what it returned.  Where the calls run in threads (SpecConc) the
\* frames of the threads hold the results and resp is left unrecorded.
Unrecorded ==
    [op |-> "unrecorded", id |-> None, arg |-> "", prog |-> None,
     code |-> 0, msg |-> "", task |-> None]

Response(op, id, arg, prog, code, msg, task) ==
    IF resp.op = "unrecorded" THEN Unrecorded
    ELSE [op |-> op, id |-> id, arg |-> arg, prog |-> prog,
          code |-> code, msg |-> msg, task |-> task]

(***************************************************************************)
(* worker_request_task, statement by statement.  loc is the frame of one   *)
(* call: pc (the line it is at), worker_id (the parameter, reassigned at   *)
(* line 132), noWorkers (read at line 130 only, and cleared after it),     *)
(* wsnap (the Worker row as session.get loaded it), task, and the response *)
(* once it returned.                                                       *)
(***************************************************************************)
NoSnap == [status |-> "", current_task_id |-> None]

IdleLoc ==
    [pc |-> "done", worker_id |-> EmptyId, noWorkers |-> 0,
     wsnap |-> NoSnap, task |-> None, code |-> 0, msg |-> ""]

Cfg(T, W, l) == [tasks |-> T, workers |-> W, loc |-> l]

Return(l, code, msg) ==
    [l EXCEPT !.pc = "done", !.noWorkers = 0, !.wsnap = NoSnap,
              !.code = code, !.msg = msg]

\* line 121: Worker.query.filter(Worker.status == 'Ready').count()
CountReady(W) == Cardinality({i \in DOMAIN W : W[i].status = "Ready"})

\* line 126: the filter.  Python's `and` first takes bool() of
\* RenderTask.status == 'rendering'; SQLAlchemy defines bool() of an ==
\* expression as the identity of its two operands, which is False here, so
\* `and` yields its left operand and the worker_id comparison never reaches
\* the query.
RenderingFilter(t, worker_id) == t.status = "rendering"

\* line 146: the rows with status 'pending'
Pending(T) == {i \in DOMAIN T : T[i].status = "pending"}

\* what .first() returns when the query has no ORDER BY: any row
FirstUnordered(T) == Pending(T)

\* line 146: order_by(ordering).first().  The ORDER BY has the priority rank
\* as its only key: among rows of equal rank SQL leaves the order open, so
\* any of them may come first.
FirstByOrdering(T) ==
    {t \in Pending(T) :
        \A u \in Pending(T) : ordering(T[t].priority) <= ordering(T[u].priority)}

\* the unit of work's flush: an attribute whose new value equals the loaded
\* one is not part of the UPDATE, so the row keeps what the table holds
Flush(stored, loaded, new) == IF loaded = new THEN stored ELSE new

\* a bind that stores the task as a new RenderTask row of its own making
\* (priority back at the column default) instead of updating the loaded one
BindAsNewRow(T, W, l) ==
    Cfg([T EXCEPT ![l.task] = [NewTask("MEDIUM") EXCEPT !.status = "rendering",
                                                        !.worker_id = l.worker_id]],
        [W EXCEPT ![l.worker_id].status = "Busy",
                  ![l.worker_id].current_task_id = l.task],
        Return(l, 200, "Task assigned to worker"))

\* lines 152-156
Bind(T, W, l) ==
    Cfg([T EXCEPT ![l.task].status = "rendering",
                  ![l.task].worker_id = l.worker_id],
        [W EXCEPT ![l.worker_id].status =
                      Flush(@, l.wsnap.status, "Busy"),
                  ![l.worker_id].current_task_id =
                      Flush(@, l.wsnap.current_task_id, l.task)],
        Return(l, 200, "Task assigned to worker"))

\* the call's first statement (line 121)
StartLoc(W, worker_id) ==
    [IdleLoc EXCEPT !.pc = "L126", !.worker_id = worker_id,
                    !.noWorkers = CountReady(W)]

\* one statement of the call: the configurations it can lead to
Step(T, W, l, clock) ==
    CASE l.pc = "L126" ->
           IF \E i \in DOMAIN T : RenderingFilter(T[i], l.worker_id)
           THEN {Cfg(T, W, Return(l, 404, "Task is processing"))}
           ELSE {Cfg(T, W, [l EXCEPT !.pc = "L130"])}
      [] l.pc = "L130" ->
           IF l.noWorkers = 0
           THEN IF Len(W) < MaxWorkers
                THEN {Cfg(T, Append(W, NewWorker(clock)),
                          [l EXCEPT !.pc = "L141", !.worker_id = Len(W) + 1])}
                ELSE {}
           ELSE {Cfg(T, W, [l EXCEPT !.pc = "L141", !.noWorkers = 0])}
      [] l.pc = "L141" ->
           IF l.worker_id \in DOMAIN W
           THEN {Cfg(T, W, [l EXCEPT !.pc = "L146",
                     !.wsnap = [status |-> W[l.worker_id].status,
                                current_task_id |-> W[l.worker_id].current_task_id]])}
           ELSE {Cfg(T, W, Return(l, 404, "Worker not found"))}
      [] l.pc = "L146" ->
           IF Pending(T) = {}
           THEN {Cfg(T, W, Return(l, 404, "No available tasks"))}
           ELSE {Cfg(T, W, [l EXCEPT !.pc = "L152", !.task = t]) :
                    t \in FirstByOrdering(T)}
      [] l.pc = "L152" -> {Bind(T, W, l)}
      [] OTHER -> {}

\* the call run to its return with nothing in between
RECURSIVE Run(_, _, _, _)
Run(T, W, l, clock) ==
    IF l.pc = "done" THEN {Cfg(T, W, l)}
    ELSE UNION {Run(c.tasks, c.workers, c.loc, clock) : c \in Step(T, W, l, clock)}

worker_request_task(T, W, worker_id, clock) ==
    Run(T, W, StartLoc(W, worker_id), clock)

(***************************************************************************)
(* check_worker_failures                                                   *)
(***************************************************************************)
\* line 41: a NULL last_heartbeat compares as NULL and is filtered out
FailedWorkers(W, clock) ==
    {i \in DOMAIN W : /\ W[i].last_heartbeat # None
                      /\ W[i].last_heartbeat < clock - HeartbeatTimeout}

RECURSIVE Orders(_)
Orders(S) ==
    IF S = {} THEN {<< >>}
    ELSE UNION {{<<x>> \o s : s \in Orders(S \ {x})} : x \in S}

\* lines 43-47: the calls the sweep makes, in the order of the query's rows
\* (the query has no ORDER BY)
SweepCalls(W, clock) ==
    IF FailedWorkers(W, clock) = {} THEN {<<EmptyId>>}
    ELSE Orders(FailedWorkers(W, clock))

RECURSIVE RunCalls(_, _, _, _)
RunCalls(T, W, calls, clock) ==
    IF calls = << >> THEN {Cfg(T, W, IdleLoc)}
    ELSE UNION {RunCalls(c.tasks, c.workers, Tail(calls), clock) :
                   c \in worker_request_task(T, W, Head(calls), clock)}

check_worker_failures(T, W, clock) ==
    UNION {RunCalls(T, W, calls, clock) : calls \in SweepCalls(W, clock)}

(***************************************************************************)
(* The state after init_db: two empty tables, no call in flight.           *)
(***************************************************************************)
Threads == {"t1", "t2"}

Init ==
    /\ tasks = << >>
    /\ workers = << >>
    /\ now = ImportTime
    /\ resp = [Unrecorded EXCEPT !.op = "init"]
    /\ thr = [th \in Threads |-> IdleLoc]

(***************************************************************************)
(* The handlers, each as one action.  resp names the call by its operation *)
(* in the specification: SubmitTask is create_render, RequestTask          *)
(* worker_request_task, UpdateWorkerStatus update_worker_status,           *)
(* UpdateTaskStatus update_render_status, CompleteTask complete_render,    *)
(* Heartbeat worker_heartbeat, and Sweep one pass of worker_loop.          *)
(***************************************************************************)
\* create_render, lines 66-81; "" is a body without 'priority'
PriorityInputs == {"RUSH", "HIGH", "MEDIUM", "LOW", "", "URGENT"}

create_render(p) ==
    LET priority == IF p = "" THEN "MEDIUM" ELSE p IN
    /\ IF \E i \in 1..Len(PRIORITY) : PRIORITY[i] = priority
       THEN /\ Len(tasks) < MaxTasks
            /\ tasks' = Append(tasks, NewTask(priority))
            /\ resp' = Response("SubmitTask", None, p, None, 201,
                                "Task added to queue", Len(tasks) + 1)
       ELSE /\ tasks' = tasks
            /\ resp' = Response("SubmitTask", None, p, None, 400,
                                "Invalid priority", None)
    /\ UNCHANGED <<workers, now, thr>>

\* worker_request_task as a request, lines 119-158
RequestTask(worker_id) ==
    /\ \E c \in worker_request_task(tasks, workers, worker_id, now) :
          /\ tasks' = c.tasks
          /\ workers' = c.workers
          /\ resp' = Response("RequestTask", worker_id, "", None,
                              c.loc.code, c.loc.msg, c.loc.task)
    /\ UNCHANGED <<now, thr>>

\* update_worker_status, lines 163-176
WorkerStatusInputs == {"Ready", "Busy", "Offline", "Idle"}

update_worker_status(worker_id, status) ==
    /\ IF worker_id \notin DOMAIN workers
       THEN /\ workers' = workers
            /\ resp' = Response("UpdateWorkerStatus", worker_id, "", None,
                                404, "Worker not found", None)
       ELSE IF status \notin {"Ready", "Busy", "Offline"}
       THEN /\ workers' = workers
            /\ resp' = Response("UpdateWorkerStatus", worker_id, status, None,
                                400, "Invalid status", None)
       ELSE LET stamp == IF status # "Offline" THEN DatetimeNoArgs(now) ELSE None IN
            IF stamp = Raised
            THEN \* the exception leaves the handler before the commit: the
                 \* session and what it holds are dropped with the request
                 /\ workers' = workers
                 /\ resp' = Response("UpdateWorkerStatus", worker_id, status, None,
                                     500, "TypeError", None)
            ELSE /\ workers' = [workers EXCEPT ![worker_id].status = status,
                                               ![worker_id].last_heartbeat = stamp]
                 /\ resp' = Response("UpdateWorkerStatus", worker_id, status, None,
                                     200, "Worker status updated", None)
    /\ UNCHANGED <<tasks, now, thr>>

\* update_render_status, lines 181-198.  The bodies tried: <<status, progress>>,
\* "" for no 'status', None for no 'progress', progress in tenths
UpdateInputs ==
    {<<"", 5>>, <<"", 15>>, <<"Completed", None>>, <<"paused", None>>}

update_render_status(task_id, status, progress) ==
    /\ IF task_id \notin DOMAIN tasks
       THEN /\ tasks' = tasks
            /\ resp' = Response("UpdateTaskStatus", task_id, "", None,
                                404, "Task not found", None)
       ELSE LET stamp == DatetimeNoArgs(now) IN
            IF stamp = Raised
            THEN /\ tasks' = tasks
                 /\ resp' = Response("UpdateTaskStatus", task_id, status, progress,
                                     500, "TypeError", None)
            ELSE /\ tasks' = [tasks EXCEPT
                       ![task_id].status = IF status # "" THEN status ELSE @,
                       ![task_id].progress = IF progress # None THEN progress ELSE @,
                       ![task_id].updated_at = stamp]
                 /\ resp' = Response("UpdateTaskStatus", task_id, status, progress,
                                     200, "", None)
    /\ UNCHANGED <<workers, now, thr>>

\* complete_render, lines 203-213
complete_render(task_id) ==
    /\ IF task_id \notin DOMAIN tasks
       THEN /\ tasks' = tasks
            /\ resp' = Response("CompleteTask", task_id, "", None,
                                404, "Task not found", None)
       ELSE LET stamp == DatetimeNoArgs(now) IN
            IF stamp = Raised
            THEN /\ tasks' = tasks
                 /\ resp' = Response("CompleteTask", task_id, "", None,
                                     500, "TypeError", None)
            ELSE /\ tasks' = [tasks EXCEPT ![task_id].status = "Completed",
                                           ![task_id].updated_at = stamp]
                 /\ resp' = Response("CompleteTask", task_id, "", None,
                                     200, "Render task completed successfully", None)
    /\ UNCHANGED <<workers, now, thr>>

\* worker_heartbeat without its `if not worker` return (lines 221-222)
worker_heartbeat_unchecked(worker_id) ==
    /\ workers' = workers
    /\ resp' = Response("Heartbeat", worker_id, "", None, 500, "TypeError", None)
    /\ UNCHANGED <<tasks, now, thr>>

\* worker_heartbeat, lines 218-227
worker_heartbeat(worker_id) ==
    /\ IF worker_id \notin DOMAIN workers
       THEN /\ workers' = workers
            /\ resp' = Response("Heartbeat", worker_id, "", None,
                                404, "Worker not found", None)
       ELSE LET stamp == DatetimeNoArgs(now) IN
            IF stamp = Raised
            THEN /\ workers' = workers
                 /\ resp' = Response("Heartbeat", worker_id, "", None,
                                     500, "TypeError", None)
            ELSE /\ workers' = [workers EXCEPT ![worker_id].last_heartbeat = stamp]
                 /\ resp' = Response("Heartbeat", worker_id, "", None,
                                     200, "Heartbeat received", None)
    /\ UNCHANGED <<tasks, now, thr>>

\* one pass of worker_loop's body, line 54: check_worker_failures()
worker_loop ==
    /\ \E c \in check_worker_failures(tasks, workers, now) :
          /\ tasks' = c.tasks
          /\ workers' = c.workers
    /\ resp' = Response("Sweep", None, "", None, 0, "", None)
    /\ UNCHANGED <<now, thr>>

\* time.sleep(30), line 55: the clock moves on
Tick ==
    /\ now < MaxTicks * Period
    /\ now' = now + Period
    /\ resp' = Response("Tick", None, "", None, 0, "", None)
    /\ UNCHANGED <<tasks, workers, thr>>

WorkerIds == EmptyId .. Len(workers)
TaskIds == 0 .. Len(tasks)

Next ==
    \/ \E p \in PriorityInputs : create_render(p)
    \/ \E w \in WorkerIds : RequestTask(w)
    \/ \E w \in WorkerIds, s \in WorkerStatusInputs : update_worker_status(w, s)
    \/ \E t \in TaskIds, b \in UpdateInputs : update_render_status(t, b[1], b[2])
    \/ \E t \in TaskIds : complete_render(t)
    \/ \E w \in WorkerIds : worker_heartbeat(w)
    \/ worker_loop
    \/ Tick

Spec == Init /\ [][Next]_vars

\* The handlers one at a time, with requests for tasks and completion calls
\* that keep coming: a request or a completion that stays possible is
\* eventually made.
SpecLive ==
    /\ Init
    /\ [][Next]_vars
    /\ WF_vars(\E w \in WorkerIds : RequestTask(w))
    /\ WF_vars(\E t \in TaskIds : complete_render(t))

(***************************************************************************)
(* The same handlers with worker_request_task running in two threads whose *)
(* statements interleave.  A thread is a request thread of the server      *)
(* (app.run serves each request in a thread of its own) or the monitor     *)
(* thread started at line 230, whose calls pass a failed worker's id or '' *)
(* (lines 44, 47): both are calls of worker_request_task with a worker id  *)
(* out of WorkerIds.  A frame is kept only while its call runs.            *)
(***************************************************************************)
\* a call starts with its first statement
CallStart(th, worker_id) ==
    /\ thr[th].pc = "done"
    /\ thr' = [thr EXCEPT ![th] = StartLoc(workers, worker_id)]
    /\ UNCHANGED <<tasks, workers, now, resp>>

\* the next statement of the call a thread is in
CallStep(th) ==
    /\ thr[th].pc # "done"
    /\ \E c \in Step(tasks, workers, thr[th], now) :
          /\ tasks' = c.tasks
          /\ workers' = c.workers
          /\ thr' = [thr EXCEPT ![th] = IF c.loc.pc = "done" THEN IdleLoc ELSE c.loc]
    /\ UNCHANGED <<now, resp>>

NextConc ==
    \/ \E p \in PriorityInputs : create_render(p)
    \/ \E th \in Threads, w \in WorkerIds : CallStart(th, w)
    \/ \E th \in Threads : CallStep(th)
    \/ \E w \in WorkerIds, s \in WorkerStatusInputs : update_worker_status(w, s)
    \/ \E t \in TaskIds, b \in UpdateInputs : update_render_status(t, b[1], b[2])
    \/ \E t \in TaskIds : complete_render(t)
    \/ \E w \in WorkerIds : worker_heartbeat(w)
    \/ Tick

InitConc ==
    /\ tasks = << >>
    /\ workers = << >>
    /\ now = ImportTime
    /\ resp = Unrecorded
    /\ thr = [th \in Threads |-> IdleLoc]

SpecConc == InitConc /\ [][NextConc]_vars

(***************************************************************************)
(* The properties.  In them a task is Assigned when its status is          *)
(* 'rendering', assignedWorker is worker_id and currentTask is             *)
(* current_task_id; task ids are in the order of creation.                 *)
(***************************************************************************)
\* the rank the specification gives the priorities: RUSH first, LOW last
Rank(p) ==
    CASE p = "RUSH" -> 0 [] p = "HIGH" -> 1 [] p = "MEDIUM" -> 2 [] p = "LOW" -> 3

\* a step dispatches task t: t goes from Pending to Assigned
Dispatched(t) ==
    /\ t \in DOMAIN tasks
    /\ tasks[t].status = "pending"
    /\ tasks'[t].status = "rendering"

\* worker w's heartbeat is older than the timeout
Stale(w) ==
    /\ workers[w].last_heartbeat # None
    /\ now - workers[w].last_heartbeat > HeartbeatTimeout

\* C1: in every reachable state, a task is Assigned if and only if its
\* assignedWorker is set and that worker's currentTask is the task.
C1_AssignedIffBound ==
    \A t \in DOMAIN tasks :
        (tasks[t].status = "rendering")
        <=> /\ tasks[t].worker_id \in DOMAIN workers
            /\ workers[tasks[t].worker_id].current_task_id = t

\* C2: two concurrent RequestTask calls never bind the same task: no two
\* workers have the same currentTask.
C2_NoSharedTask ==
    \A v, w \in DOMAIN workers :
        (v # w /\ workers[v].current_task_id # None)
        => workers[v].current_task_id # workers[w].current_task_id

\* C3: whenever a step dispatches a task, no task that was Pending before
\* the step has a higher priority rank than the dispatched one.
C3_HighestPriorityFirst ==
    [][\A t \in DOMAIN tasks :
          Dispatched(t) =>
              \A u \in DOMAIN tasks :
                  tasks[u].status = "pending"
                  => Rank(tasks[t].priority) <= Rank(tasks[u].priority)]_vars

\* C3's case: a request was answered with a task that was submitted after a
\* task of lower priority, which is still Pending.
C3_Witness ==
    /\ resp.op = "RequestTask"
    /\ resp.code = 200
    /\ tasks[resp.task].status = "rendering"
    /\ \E u \in DOMAIN tasks :
          /\ u < resp.task
          /\ tasks[u].status = "pending"
          /\ Rank(tasks[resp.task].priority) < Rank(tasks[u].priority)

\* C4: a task is never dispatched while a Pending task of the same priority
\* that was created before it exists.
C4_FifoWithinPriority ==
    [][\A t \in DOMAIN tasks :
          Dispatched(t) =>
              ~ \E u \in DOMAIN tasks :
                    /\ u < t
                    /\ tasks[u].status = "pending"
                    /\ tasks[u].priority = tasks[t].priority]_vars

\* C5: a sweep that finds a worker with a stale heartbeat and a task bound to
\* it leaves the task Pending with no assignedWorker and the worker Offline
\* with no currentTask.
C5_SweepReclaims ==
    [][resp'.op = "Sweep" =>
          \A w \in DOMAIN workers, t \in DOMAIN tasks :
              ( /\ Stale(w)
                /\ tasks[t].status = "rendering"
                /\ tasks[t].worker_id = w
                /\ workers[w].current_task_id = t )
              => /\ tasks'[t].status = "pending"
                 /\ tasks'[t].worker_id = None
                 /\ workers'[w].status = "Offline"
                 /\ workers'[w].current_task_id = None]_vars

\* C6: CompleteTask on an Assigned task leaves the task Completed and the
\* worker that held it Ready with no currentTask.
C6_CompleteFreesWorker ==
    [][( /\ resp'.op = "CompleteTask"
         /\ resp'.id \in DOMAIN tasks
         /\ tasks[resp'.id].status = "rendering" )
       => /\ tasks'[resp'.id].status = "Completed"
          /\ \A w \in DOMAIN workers :
                workers[w].current_task_id = resp'.id
                => /\ workers'[w].status = "Ready"
                   /\ workers'[w].current_task_id = None]_vars

\* C7: a worker holds at most one task: no two Assigned tasks have the same
\* assignedWorker.
C7_OneTaskPerWorker ==
    \A t, u \in DOMAIN tasks :
        (t # u /\ tasks[t].status = "rendering" /\ tasks[u].status = "rendering")
        => tasks[t].worker_id # tasks[u].worker_id

\* C8: a RequestTask by a known worker that holds no Assigned task is bound to
\* a task whenever a Pending task exists.
C8_FreeWorkerIsServed ==
    [][( /\ resp'.op = "RequestTask"
         /\ resp'.id \in DOMAIN workers
         /\ ~ \E t \in DOMAIN tasks :
                 tasks[t].status = "rendering" /\ tasks[t].worker_id = resp'.id
         /\ \E t \in DOMAIN tasks : tasks[t].status = "pending" )
       => resp'.code = 200]_vars

\* C9: when RequestTask(workerID) of a known worker succeeds, the task is
\* bound to workerID and it is that worker that is Busy with the task.
C9_BoundToRequester ==
    [][( /\ resp'.op = "RequestTask"
         /\ resp'.code = 200
         /\ resp'.id \in DOMAIN workers )
       => /\ tasks'[resp'.task].worker_id = resp'.id
          /\ workers'[resp'.id].status = "Busy"
          /\ workers'[resp'.id].current_task_id = resp'.task]_vars

\* C10: in every reachable state a worker is Busy if and only if its
\* currentTask is set, and that if and only if the task it refers to is
\* Assigned to this worker.
C10_BusyIffHolding ==
    \A w \in DOMAIN workers :
        /\ (workers[w].status = "Busy") <=> (workers[w].current_task_id # None)
        /\ (workers[w].current_task_id # None)
           <=> /\ workers[w].current_task_id \in DOMAIN tasks
               /\ tasks[workers[w].current_task_id].status = "rendering"
               /\ tasks[workers[w].current_task_id].worker_id = w

\* the task statuses the specification recognizes: Pending, Assigned,
\* Completed, Failed
RecognizedStatus == {"pending", "rendering", "Completed", "Failed"}

\* progress is held in tenths: [0.0, 1.0] is 0..10
ProgressRange == 0 .. 10

\* C11: UpdateStatus on an existing task with only progress leaves status,
\* priority and assignedWorker as they were, sets progress to the given value
\* and advances updatedAt.
C11_ProgressOnlyUpdate ==
    [][( /\ resp'.op = "UpdateTaskStatus"
         /\ resp'.id \in DOMAIN tasks
         /\ resp'.arg = ""
         /\ resp'.prog \in ProgressRange )
       => /\ tasks'[resp'.id].status = tasks[resp'.id].status
          /\ tasks'[resp'.id].priority = tasks[resp'.id].priority
          /\ tasks'[resp'.id].worker_id = tasks[resp'.id].worker_id
          /\ tasks'[resp'.id].progress = resp'.prog
          /\ tasks'[resp'.id].updated_at > tasks[resp'.id].updated_at]_vars

\* C12: UpdateStatus with an unrecognized status or a progress outside [0,1]
\* is rejected as an invalid argument (400) and changes no task; every task's
\* status is a recognized one and every task's progress is within [0,1].
C12_InvalidUpdateRejected ==
    [][ /\ ( /\ resp'.op = "UpdateTaskStatus"
             /\ resp'.id \in DOMAIN tasks
             /\ \/ resp'.arg \notin RecognizedStatus \cup {""}
                \/ resp'.prog \notin ProgressRange \cup {None} )
           => (resp'.code = 400 /\ tasks' = tasks)
        /\ \A t \in DOMAIN tasks' :
              /\ tasks'[t].status \in RecognizedStatus
              /\ tasks'[t].progress \in ProgressRange ]_vars

\* C13: when no task is Pending, a RequestTask of a known worker that holds no
\* Assigned task reports "no task available" and binds nothing: no task
\* changes, no worker becomes Busy or gains a currentTask.
C13_NoPendingNoBind ==
    [][( /\ resp'.op = "RequestTask"
         /\ resp'.id \in DOMAIN workers
         /\ Pending(tasks) = {}
         /\ ~ \E t \in DOMAIN tasks :
                 tasks[t].status = "rendering" /\ tasks[t].worker_id = resp'.id )
       => /\ resp'.msg = "No available tasks"
          /\ tasks' = tasks
          /\ \A w \in DOMAIN workers' :
                /\ workers'[w].status = "Busy"
                   => (w \in DOMAIN workers /\ workers[w].status = "Busy")
                /\ workers'[w].current_task_id # None
                   => (w \in DOMAIN workers
                       /\ workers[w].current_task_id = workers'[w].current_task_id)]_vars

\* C14: SubmitTask with a priority of the enumeration (MEDIUM when omitted)
\* adds exactly one task, with a fresh id, Pending, with no assignedWorker and
\* with that priority, and changes no other task and no worker; with any
\* other priority it is rejected and adds no task.
C14_SubmitAddsOne ==
    [][resp'.op = "SubmitTask" =>
          IF resp'.arg \in {"RUSH", "HIGH", "MEDIUM", "LOW", ""}
          THEN /\ resp'.code = 201
               /\ Len(tasks') = Len(tasks) + 1
               /\ resp'.task \in DOMAIN tasks' \ DOMAIN tasks
               /\ tasks'[resp'.task].status = "pending"
               /\ tasks'[resp'.task].worker_id = None
               /\ tasks'[resp'.task].priority =
                      IF resp'.arg = "" THEN "MEDIUM" ELSE resp'.arg
               /\ \A t \in DOMAIN tasks : tasks'[t] = tasks[t]
               /\ workers' = workers
          ELSE /\ resp'.code = 400
               /\ tasks' = tasks
               /\ workers' = workers]_vars

\* C14's case: a task was submitted with a priority other than the default
\* while an earlier task is Assigned to a worker.
C14_Witness ==
    /\ resp.op = "SubmitTask"
    /\ resp.code = 201
    /\ resp.arg = "LOW"
    /\ resp.task = 2
    /\ tasks[2].priority = "LOW"
    /\ tasks[1].status = "rendering"
    /\ workers # << >>

\* C15: Heartbeat, UpdateWorkerStatus, UpdateTaskStatus and CompleteTask with
\* an id that is not in the store answer NotFound (404) and change no task
\* and no worker.
C15_UnknownIdNotFound ==
    [][( \/ /\ resp'.op \in {"Heartbeat", "UpdateWorkerStatus"}
            /\ resp'.id \notin DOMAIN workers
         \/ /\ resp'.op \in {"UpdateTaskStatus", "CompleteTask"}
            /\ resp'.id \notin DOMAIN tasks )
       => /\ resp'.code = 404
          /\ tasks' = tasks
          /\ workers' = workers]_vars

\* C15's case: a Heartbeat for an id without a row was answered while the
\* store holds a worker and a task.
C15_Witness ==
    /\ resp.op = "Heartbeat"
    /\ resp.id \notin DOMAIN workers
    /\ resp.code = 404
    /\ workers # << >>
    /\ tasks # << >>

\* the changes of status the lifecycle has: dispatch, completion, return to
\* Pending after a worker failure, failure report
Lifecycle ==
    {<<"pending", "rendering">>, <<"rendering", "Completed">>,
     <<"rendering", "pending">>, <<"rendering", "Failed">>}

C17_OfflineHasNoHeartbeat ==
    \A w \in DOMAIN workers :
        workers[w].status = "Offline" => workers[w].last_heartbeat = None

\* C17's case: a Heartbeat was answered for a worker that UpdateWorkerStatus
\* had set Offline.
C17_Witness ==
    /\ resp.op = "Heartbeat"
    /\ resp.id \in DOMAIN workers
    /\ workers[resp.id].status = "Offline"

\* C18: no task is ever deleted and its priority is fixed at creation: a task
\* of the store is in the store after every step, with the same priority.
C18_TasksKeptPriorityFixed ==
    [][\A t \in DOMAIN tasks :
          /\ t \in DOMAIN tasks'
          /\ tasks'[t].priority = tasks[t].priority]_vars

\* C18's case: a sweep has run over a worker with a stale heartbeat that holds
\* a task submitted with a priority other than the default.
C18_Witness ==
    /\ resp.op = "Sweep"
    /\ \E w \in DOMAIN workers :
          /\ Stale(w)
          /\ workers[w].current_task_id \in DOMAIN tasks
          /\ tasks[workers[w].current_task_id].status = "rendering"
          /\ tasks[workers[w].current_task_id].priority = "RUSH"

\* task t is held by a worker whose heartbeat is stale
HeldByStale(t) ==
    \E w \in DOMAIN workers :
        Stale(w) /\ (tasks[t].worker_id = w \/ workers[w].current_task_id = t)

\* C19: a sweep dispatches no task, adds no worker, and leaves every worker
\* whose heartbeat is not stale and every task not held by a stale worker as
\* they were; with no stale worker it changes nothing.
C19_SweepDispatchesNothing ==
    [][resp'.op = "Sweep" =>
          /\ \A t \in DOMAIN tasks : ~ Dispatched(t)
          /\ Len(workers') = Len(workers)
          /\ \A w \in DOMAIN workers : ~ Stale(w) => workers'[w] = workers[w]
          /\ \A t \in DOMAIN tasks : ~ HeldByStale(t) => tasks'[t] = tasks[t]]_vars

\* C20: no task starves: with requests for tasks and completion calls that
\* keep coming, a task that is Pending is eventually Assigned.  Stated from
\* the states in which another task is Assigned, where a request creates no
\* worker.
C20_NoStarvation ==
    \A t \in 1 .. MaxTasks :
        ( /\ t \in DOMAIN tasks
          /\ tasks[t].status = "pending"
          /\ \E u \in DOMAIN tasks : tasks[u].status = "rendering" )
        ~> (t \in DOMAIN tasks /\ tasks[t].status = "rendering")

====
